---- MODULE Spec2Model ----
(***************************************************************************)
(* The SQLite virtual-table adapter of osquery/core/virtual_table.h:       *)
(* the table object (osquery_table wrapped in x_vtab<T>), its cursors, and *)
(* the callbacks xCreate, xDestroy, xOpen, xClose, xBestIndex, xFilter,    *)
(* xNext, xEof, xColumn and xRowid.                                        *)
(*                                                                         *)
(* A std::string that the adapter parses (a generated cell) is a sequence  *)
(* of one-character strings; a string it only copies (a literal, a column  *)
(* name, a type name) is a TLA+ string.                                    *)
(***************************************************************************)
EXTENDS Integers, Sequences, FiniteSets, TLC

VARIABLES
    vtabs,      \* table id -> the x_vtab<T>/pContent object, or NoVtab
    cursors,    \* cursor id -> the base_cursor object, or NoCursor
    generated,  \* table id -> what generate did in the latest xFilter on it:
                \* state "none", "returned" (with the rows) or "thrown"
    plan,       \* table id -> the accepted candidates of the latest xBestIndex,
                \* in argvIndex order (the engine's sqlite3_index_info)
    last,       \* the latest callback: its name, arguments, return code, results
                \* and number of generate calls (for xFilter also the row
                \* count, position and literals it replaced)
    status      \* "running", or "crashed" after an out-of-range access faulted

vars == <<vtabs, cursors, generated, plan, last, status>>

----------------------------------------------------------------------------
(* Bounds of the model.                                                    *)

MaxRows == 2          \* rows one generate call returns, at most
MaxCands == 2         \* predicate candidates offered to one xBestIndex call
MaxConstraints == 2   \* entries of the ConstraintSet, at most
MaxArgc == 2          \* literals passed to one xFilter call, at most
MaxRow == 2           \* highest cursor position xNext is followed to
MaxCandColumn == 1    \* highest column index of a predicate candidate

VtabIds == {1, 2}
CursorIds == {1, 2}

\* The table and the cursor of a query on one table.
OneTable == {1}
OneCursor == {1}

----------------------------------------------------------------------------
(* The plugin type T: its schema.                                          *)

column_names == <<"name", "pid", "size">>
types == <<"TEXT", "INTEGER", "BIGINT">>

NCols == Len(column_names)

\* size_t arithmetic: an int compared with a size_t is converted to size_t.
\* The modulus is scaled to fit the model checker's integers; what matters
\* is that it exceeds every size in the model.
SizeModulus == 2^30

ToSizeT(i) == i % SizeModulus

\* A freed (or never allocated) object.
NoVtab == [alloc |-> FALSE]
NoCursor == [open |-> FALSE]
OK == "SQLITE_OK"
ERROR == "SQLITE_ERROR"
THROWN == "exception"
\* What a read outside an array yields when it does not fault.
Garbage == "<garbage>"

\* The value an uninitialised int may hold.
UninitInts == {-1, 0, 7}

\* std::map: a function whose domain is the set of keys present.
EmptyMap == [k \in {} |-> <<>>]

MapGet(m, k, default) == IF k \in DOMAIN m THEN m[k] ELSE default

MapPut(m, k, v) == [x \in (DOMAIN m) \cup {k} |-> IF x = k THEN v ELSE m[x]]

----------------------------------------------------------------------------
(* Inputs. The specifications share the state and the callbacks: Spec      *)
(* draws what generate returns from RowSets and keeps the negotiation      *)
(* small; SpecNegotiation draws the candidates and literals from           *)
(* CandidateLists and ArgvLists and keeps the generated rows small;        *)
(* SpecCoercion draws the cells from CoercionValues; SpecCursors and       *)
(* SpecTables use both cursor ids and both table ids with small inputs.    *)

SeqsUpTo(S, n) == UNION { [1..k -> S] : k \in 0..n }

Ops == {"EQ", "GT"}
Literals == {"a", "b"}

\* Generated rows: maps from column name to value. The cells are "", "42",
\* "abc" and "9999999999"; the third row has no "pid" and has a key that is
\* no column.
Rows == { [name |-> <<"a", "b", "c">>, pid |-> <<"4", "2">>,
           size |-> <<"9", "9", "9", "9", "9", "9", "9", "9", "9", "9">>],
          [name |-> <<>>, pid |-> <<"a", "b", "c">>, size |-> <<"4", "2">>],
          [name |-> <<"4", "2">>, size |-> <<>>, extra |-> <<"4", "2">>] }

\* What generate returns: up to MaxRows rows, pairwise different or just two.
RowSets ==
    { R \in SeqsUpTo(Rows, MaxRows) :
        Len(R) = 2 \/ \A i, j \in 1..Len(R) : i # j => R[i] # R[j] }

FewRowSets == { <<>>, <<[name |-> <<"4", "2">>, pid |-> <<"4", "2">>,
                         size |-> <<"4", "2">>]>> }

\* Cell values for the coercions: "", "42", "abc", "9999999999", "-7",
\* " 42", "4.2", the ends of the 32-bit and 64-bit ranges and their
\* neighbours outside, and "a", NUL, "b".
CoercionValues ==
    { <<>>,
      <<"4", "2">>,
      <<"a", "b", "c">>,
      <<"9", "9", "9", "9", "9", "9", "9", "9", "9", "9">>,
      <<"-", "7">>,
      <<" ", "4", "2">>,
      <<"4", ".", "2">>,
      <<"2", "1", "4", "7", "4", "8", "3", "6", "4", "7">>,
      <<"2", "1", "4", "7", "4", "8", "3", "6", "4", "8">>,
      <<"-", "2", "1", "4", "7", "4", "8", "3", "6", "4", "8">>,
      <<"-", "2", "1", "4", "7", "4", "8", "3", "6", "4", "9">>,
      <<"9", "2", "2", "3", "3", "7", "2", "0", "3", "6", "8", "5", "4", "7", "7", "5", "8", "0", "7">>,
      <<"9", "2", "2", "3", "3", "7", "2", "0", "3", "6", "8", "5", "4", "7", "7", "5", "8", "0", "8">>,
      <<"a", "\\0", "b">> }

\* What generate returns for them: one row with the value in every column.
CoercionRowSets ==
    { <<[name |-> x, pid |-> x, size |-> x]>> : x \in CoercionValues }

\* sqlite3_index_constraint: iColumn is -1 for the rowid. A candidate on
\* column 0 compares with EQ, any other with GT.
Candidates ==
    { [iColumn |-> i, op |-> IF i = 0 THEN "EQ" ELSE "GT", usable |-> u] :
        i \in -1..MaxCandColumn, u \in BOOLEAN }

CandidateLists == SeqsUpTo(Candidates, MaxCands)

FewCandidateLists ==
    SeqsUpTo([iColumn : {0}, op : {"EQ"}, usable : BOOLEAN], 1)

ArgvLists == SeqsUpTo(Literals, MaxArgc)

FewArgvLists == SeqsUpTo({"a"}, 1)

----------------------------------------------------------------------------
(* State after construction: nothing attached.                             *)

NotGenerated == [state |-> "none", rows |-> <<>>]

NoCall ==
    [op |-> "none", v |-> 0, c |-> 0, rc |-> OK, out |-> <<>>, generate_calls |-> 0]

\* A callback that does not call generate: only xFilter does (line 197).
Call(op, v, c, rc, out) ==
    [op |-> op, v |-> v, c |-> c, rc |-> rc, out |-> out, generate_calls |-> 0]

Init ==
    /\ vtabs = [v \in VtabIds |-> NoVtab]
    /\ cursors = [c \in CursorIds |-> NoCursor]
    /\ generated = [v \in VtabIds |-> NotGenerated]
    /\ plan = [v \in VtabIds |-> <<>>]
    /\ last = NoCall
    /\ status = "running"

Live(v) == vtabs[v].alloc /\ vtabs[v].declared

Open(c) == cursors[c].open

CursorsOn(v) == {c \in CursorIds : Open(c) /\ cursors[c].vtab = v}

----------------------------------------------------------------------------
(* xCreate: new x_vtab<T>, new T, sqlite3_declare_vtab. osquery_table's    *)
(* constructor is empty: n is not initialised; columns and constraints     *)
(* are default-constructed empty. rc is the result of the declaration.     *)

osquery_table(n0) == [n |-> n0, columns |-> EmptyMap, constraints |-> <<>>]

xCreate(v, rc, n0) ==
    /\ status = "running"
    /\ ~vtabs[v].alloc
    /\ vtabs' = [vtabs EXCEPT ![v] =
                    [alloc |-> TRUE, declared |-> (rc = OK)] @@ osquery_table(n0)]
    /\ last' = Call("xCreate", v, 0, rc, <<>>)
    /\ UNCHANGED <<cursors, generated, status, plan>>

(* xDestroy: delete pContent, delete pVtab. The engine closes a table's   *)
(* cursors before it disconnects the table.                                *)
xDestroy(v) ==
    /\ status = "running"
    /\ Live(v)
    /\ CursorsOn(v) = {}
    /\ vtabs' = [vtabs EXCEPT ![v] = NoVtab]
    /\ generated' = [generated EXCEPT ![v] = NotGenerated]
    /\ plan' = [plan EXCEPT ![v] = <<>>]
    /\ last' = Call("xDestroy", v, 0, OK, <<>>)
    /\ UNCHANGED <<cursors, status>>

(* xOpen: a new cursor on table v at position 0. *)
xOpen(v, c) ==
    /\ status = "running"
    /\ Live(v)
    /\ ~Open(c)
    /\ cursors' = [cursors EXCEPT ![c] = [open |-> TRUE, vtab |-> v, row |-> 0]]
    /\ last' = Call("xOpen", v, c, OK, <<>>)
    /\ UNCHANGED <<vtabs, generated, status, plan>>

(* xClose: the cursor is deleted. *)
xClose(c) ==
    /\ status = "running"
    /\ Open(c)
    /\ cursors' = [cursors EXCEPT ![c] = NoCursor]
    /\ last' = Call("xClose", cursors[c].vtab, c, OK, <<>>)
    /\ UNCHANGED <<vtabs, generated, status, plan>>

(* xNext: the position advances by one, unchecked. *)
xNext(c) ==
    /\ status = "running"
    /\ Open(c)
    /\ cursors[c].row < MaxRow
    /\ cursors' = [cursors EXCEPT ![c].row = @ + 1]
    /\ last' = Call("xNext", cursors[c].vtab, c, OK, <<>>)
    /\ UNCHANGED <<vtabs, generated, status, plan>>

(* xRowid: the position is the rowid. *)
xRowid(c) ==
    /\ status = "running"
    /\ Open(c)
    /\ last' = Call("xRowid", cursors[c].vtab, c, OK, cursors[c].row)
    /\ UNCHANGED <<vtabs, cursors, generated, status, plan>>

\* Variant: end of data only once the position is past the row count.
xEofValuePast(c) == cursors[c].row > vtabs[cursors[c].vtab].n

(* xEof: pCur->row >= pVtab->pContent->n. *)
xEofValue(c) == cursors[c].row >= vtabs[cursors[c].vtab].n

xEof(c) ==
    /\ status = "running"
    /\ Open(c)
    /\ last' = Call("xEof", cursors[c].vtab, c, OK, xEofValue(c))
    /\ UNCHANGED <<vtabs, cursors, generated, status, plan>>

----------------------------------------------------------------------------
(* Value coercion. An integer result is a sign and a magnitude in decimal  *)
(* digits without leading zeros, so that 64-bit values are exact.          *)

DigitChars == <<"0", "1", "2", "3", "4", "5", "6", "7", "8", "9">>

IsDigit(ch) == \E d \in 1..10 : DigitChars[d] = ch

DigitVal(ch) == (CHOOSE d \in 1..10 : DigitChars[d] = ch) - 1

RECURSIVE StripZeros(_)
StripZeros(ds) ==
    IF Len(ds) > 1 /\ Head(ds) = 0 THEN StripZeros(Tail(ds)) ELSE ds

RECURSIVE LexLeq(_, _)
LexLeq(a, b) ==
    IF a = <<>> THEN TRUE
    ELSE IF Head(a) # Head(b) THEN Head(a) < Head(b)
    ELSE LexLeq(Tail(a), Tail(b))

\* a <= b for magnitudes without leading zeros.
MagLeq(a, b) == Len(a) < Len(b) \/ (Len(a) = Len(b) /\ LexLeq(a, b))

IntVal(neg, mag) == [neg |-> neg /\ mag # <<0>>, mag |-> mag]

MinusOne == IntVal(TRUE, <<1>>)

INT_MAX == <<2, 1, 4, 7, 4, 8, 3, 6, 4, 7>>
INT_MIN_MAG == <<2, 1, 4, 7, 4, 8, 3, 6, 4, 8>>
LLONG_MAX == <<9, 2, 2, 3, 3, 7, 2, 0, 3, 6, 8, 5, 4, 7, 7, 5, 8, 0, 7>>
LLONG_MIN_MAG == <<9, 2, 2, 3, 3, 7, 2, 0, 3, 6, 8, 5, 4, 7, 7, 5, 8, 0, 8>>

\* boost::lexical_cast to a signed integer type: an optional sign, then one
\* or more digits and nothing else, and the value within the type's range.
\* [ok |-> FALSE] stands for bad_lexical_cast.
lexical_cast(value, max, minMag) ==
    LET signed == value # <<>> /\ Head(value) \in {"+", "-"}
        neg == value # <<>> /\ Head(value) = "-"
        body == IF signed THEN Tail(value) ELSE value
    IN  IF body = <<>> \/ \E i \in 1..Len(body) : ~IsDigit(body[i])
        THEN [ok |-> FALSE]
        ELSE LET mag == StripZeros([i \in 1..Len(body) |-> DigitVal(body[i])])
             IN  IF MagLeq(mag, IF neg THEN minMag ELSE max)
                 THEN [ok |-> TRUE, val |-> IntVal(neg, mag)]
                 ELSE [ok |-> FALSE]

\* value.c_str() read as a NUL-terminated string (sqlite3_result_text, -1).
RECURSIVE c_str(_)
c_str(value) ==
    IF value = <<>> \/ Head(value) = "\\0" THEN <<>>
    ELSE <<Head(value)>> \o c_str(Tail(value))

\* The result xColumn hands to the engine for a buffered value of a type.
NoResult == [kind |-> "none"]

Coerce(type, value) ==
    IF type = "TEXT" THEN [kind |-> "text", val |-> c_str(value)]
    ELSE IF type = "INTEGER" THEN
        LET r == lexical_cast(value, INT_MAX, INT_MIN_MAG)
        IN  [kind |-> "int", val |-> IF r.ok THEN r.val ELSE MinusOne]
    ELSE IF type = "BIGINT" THEN
        LET r == lexical_cast(value, LLONG_MAX, LLONG_MIN_MAG)
        IN  [kind |-> "int64", val |-> IF r.ok THEN r.val ELSE MinusOne]
    ELSE NoResult

----------------------------------------------------------------------------
(* xColumn. Both bounds checks compare an int with a size_t. The lookup    *)
(* columns[column_name] inserts an empty vector when the key is absent.    *)

ColumnInRange(col) == ~(ToSizeT(col) >= NCols)

ColumnsTouched(columns, col) ==
    IF column_names[col + 1] \in DOMAIN columns THEN columns
    ELSE MapPut(columns, column_names[col + 1], <<>>)

RowInRange(columns, col, row) ==
    ~(ToSizeT(row) >= Len(ColumnsTouched(columns, col)[column_names[col + 1]]))

\* Variant: the position is not checked against the column's buffer; a read
\* past its end yields garbage.
xColumnResultUnchecked(c, col) ==
    LET content == vtabs[cursors[c].vtab]
        row == cursors[c].row
    IN  IF ~ColumnInRange(col) THEN [rc |-> ERROR, out |-> NoResult]
        ELSE IF ~RowInRange(content.columns, col, row)
        THEN [rc |-> OK, out |-> [kind |-> "text", val |-> Garbage]]
        ELSE [rc |-> OK,
              out |-> Coerce(types[col + 1],
                             content.columns[column_names[col + 1]][row + 1])]

\* The return code and the result of xColumn on cursor c, column col.
xColumnResult(c, col) ==
    LET content == vtabs[cursors[c].vtab]
        row == cursors[c].row
    IN  IF ~ColumnInRange(col) THEN [rc |-> ERROR, out |-> NoResult]
        ELSE IF ~RowInRange(content.columns, col, row)
        THEN [rc |-> ERROR, out |-> NoResult]
        ELSE [rc |-> OK,
              out |-> Coerce(types[col + 1],
                             content.columns[column_names[col + 1]][row + 1])]

\* Variant: a failed read rewinds the cursor.
xColumnRewinds(c, col) ==
    LET v == cursors[c].vtab
        r == xColumnResult(c, col)
    IN  /\ status = "running"
        /\ Open(c)
        /\ vtabs' = IF ColumnInRange(col)
                    THEN [vtabs EXCEPT ![v].columns = ColumnsTouched(@, col)]
                    ELSE vtabs
        /\ cursors' = IF r.rc = ERROR THEN [cursors EXCEPT ![c].row = 0] ELSE cursors
        /\ last' = Call("xColumn", v, c, r.rc, [col |-> col, result |-> r.out])
        /\ UNCHANGED <<generated, status, plan>>

xColumn(c, col) ==
    LET v == cursors[c].vtab
        r == xColumnResult(c, col)
    IN  /\ status = "running"
        /\ Open(c)
        /\ vtabs' = IF ColumnInRange(col)
                    THEN [vtabs EXCEPT ![v].columns = ColumnsTouched(@, col)]
                    ELSE vtabs
        /\ last' = Call("xColumn", v, c, r.rc, [col |-> col, result |-> r.out])
        /\ UNCHANGED <<cursors, generated, status, plan>>

----------------------------------------------------------------------------
(* xBestIndex. Every usable candidate is appended to the ConstraintSet and *)
(* gets the next argvIndex, counted from 1 in each call. The ConstraintSet *)
(* is not cleared. column_names[iColumn] is unchecked: outside the schema  *)
(* it faults or yields garbage.                                            *)

\* Constraint(op): the operator is set, the expression is empty.
Constraint(op) == [op |-> op, expr |-> ""]

ColumnNameAt(iColumn) ==
    IF ToSizeT(iColumn) < NCols THEN column_names[iColumn + 1] ELSE Garbage

\* Variant: the usable flag is not looked at.
RECURSIVE BestIndexLoopAll(_, _, _, _, _)
BestIndexLoopAll(cands, i, expr_index, constraints, usage) ==
    IF i > Len(cands) THEN [constraints |-> constraints, usage |-> usage]
    ELSE BestIndexLoopAll(cands, i + 1, expr_index + 1,
            Append(constraints,
                   [first |-> ColumnNameAt(cands[i].iColumn),
                    second |-> Constraint(cands[i].op)]),
            [usage EXCEPT ![i] = expr_index + 1])

RECURSIVE BestIndexLoop(_, _, _, _, _)
BestIndexLoop(cands, i, expr_index, constraints, usage) ==
    IF i > Len(cands) THEN [constraints |-> constraints, usage |-> usage]
    ELSE IF ~cands[i].usable
    THEN BestIndexLoop(cands, i + 1, expr_index, constraints, usage)
    ELSE BestIndexLoop(cands, i + 1, expr_index + 1,
            Append(constraints,
                   [first |-> ColumnNameAt(cands[i].iColumn),
                    second |-> Constraint(cands[i].op)]),
            [usage EXCEPT ![i] = expr_index + 1])

BestIndexResult(constraints, cands) ==
    BestIndexLoop(cands, 1, 0, constraints, [i \in 1..Len(cands) |-> 0])

BestIndexOutOfRange(cands) ==
    \E i \in 1..Len(cands) : cands[i].usable /\ ~(ToSizeT(cands[i].iColumn) < NCols)

\* The usable candidates, in the order offered.
Accepted(cands) == SelectSeq(cands, LAMBDA cand : cand.usable)

xBestIndex(v, cands, fault) ==
    LET r == BestIndexResult(vtabs[v].constraints, cands)
    IN  /\ status = "running"
        /\ Live(v)
        /\ Len(r.constraints) <= MaxConstraints
        /\ fault => BestIndexOutOfRange(cands)
        /\ IF fault
           THEN /\ status' = "crashed"
                /\ last' = Call("xBestIndex", v, 0, "crash", [cands |-> cands])
                /\ UNCHANGED <<vtabs, plan>>
           ELSE /\ vtabs' = [vtabs EXCEPT ![v].constraints = r.constraints]
                /\ plan' = [plan EXCEPT ![v] = Accepted(cands)]
                /\ last' = Call("xBestIndex", v, 0, OK,
                                [cands |-> cands, usage |-> r.usage])
                /\ UNCHANGED status
        /\ UNCHANGED <<cursors, generated>>

----------------------------------------------------------------------------
(* xFilter.                                                                *)

\* The literals the first argc entries of the ConstraintSet hold, fewer when
\* it has fewer entries.
Bound(constraints, argc) ==
    [i \in 1..(IF argc < Len(constraints) THEN argc ELSE Len(constraints)) |->
        constraints[i].second.expr]

\* ConstraintList: what request.constraints[key] creates for a new key,
\* and its add.
ConstraintList == [affinity |-> "TEXT", constraints |-> <<>>]

add(list, constraint) == [list EXCEPT !.constraints = Append(@, constraint)]

\* Lines 182-186: every schema column's buffer is cleared, and the request
\* gets the column's affinity.
\* Variant: the buffers are not cleared, only created when absent.
RECURSIVE ClearLoopKeeps(_, _)
ClearLoopKeeps(columns, i) ==
    IF i > NCols THEN columns
    ELSE ClearLoopKeeps(
            MapPut(columns, column_names[i], MapGet(columns, column_names[i], <<>>)),
            i + 1)

RECURSIVE ClearLoop(_, _)
ClearLoop(columns, i) ==
    IF i > NCols THEN columns
    ELSE ClearLoop(MapPut(columns, column_names[i], <<>>), i + 1)

RECURSIVE AffinityLoop(_, _)
AffinityLoop(request, i) ==
    IF i > NCols THEN request
    ELSE AffinityLoop(
            MapPut(request, column_names[i],
                   [MapGet(request, column_names[i], ConstraintList)
                        EXCEPT !.affinity = types[i]]),
            i + 1)

\* Variant: the constraint is added to the request before the literal is
\* written into it.
RECURSIVE BindLoopStale(_, _, _, _)
BindLoopStale(constraints, request, argv, i) ==
    IF i > Len(argv) THEN [constraints |-> constraints, request |-> request]
    ELSE IF i <= Len(constraints)
    THEN LET key == constraints[i].first
         IN  BindLoopStale([constraints EXCEPT ![i].second.expr = argv[i]],
                           MapPut(request, key,
                                  add(MapGet(request, key, ConstraintList),
                                      constraints[i].second)),
                           argv, i + 1)
    ELSE BindLoopStale(constraints,
                       MapPut(request, Garbage,
                              add(MapGet(request, Garbage, ConstraintList),
                                  [op |-> Garbage, expr |-> argv[i]])),
                       argv, i + 1)

\* Variant: a literal is written only into a constraint that holds none.
RECURSIVE BindLoopOnce(_, _, _, _)
BindLoopOnce(constraints, request, argv, i) ==
    IF i > Len(argv) THEN [constraints |-> constraints, request |-> request]
    ELSE IF i <= Len(constraints)
    THEN LET bound == IF constraints[i].second.expr = ""
                      THEN [constraints EXCEPT ![i].second.expr = argv[i]]
                      ELSE constraints
             key == bound[i].first
         IN  BindLoopOnce(bound,
                          MapPut(request, key,
                                 add(MapGet(request, key, ConstraintList),
                                     bound[i].second)),
                          argv, i + 1)
    ELSE BindLoopOnce(constraints,
                      MapPut(request, Garbage,
                             add(MapGet(request, Garbage, ConstraintList),
                                 [op |-> Garbage, expr |-> argv[i]])),
                      argv, i + 1)

\* Lines 188-195: argv[i] is written into constraints[i] and that constraint
\* is added to the request under its column. constraints[i] is unchecked:
\* past the end it reads garbage (when it does not fault) and the write
\* lands outside the ConstraintSet.
RECURSIVE BindLoop(_, _, _, _)
BindLoop(constraints, request, argv, i) ==
    IF i > Len(argv) THEN [constraints |-> constraints, request |-> request]
    ELSE IF i <= Len(constraints)
    THEN LET bound == [constraints EXCEPT ![i].second.expr = argv[i]]
             key == bound[i].first
         IN  BindLoop(bound,
                      MapPut(request, key,
                             add(MapGet(request, key, ConstraintList),
                                 bound[i].second)),
                      argv, i + 1)
    ELSE BindLoop(constraints,
                  MapPut(request, Garbage,
                         add(MapGet(request, Garbage, ConstraintList),
                             [op |-> Garbage, expr |-> argv[i]])),
                  argv, i + 1)

\* Lines 197-202: row[column_name] of every schema column is appended; a
\* row without the key yields the empty string.
\* Variant: a column the row has no value for gets nothing appended.
RECURSIVE PushColumnsPresent(_, _, _)
PushColumnsPresent(columns, row, i) ==
    IF i > NCols THEN columns
    ELSE PushColumnsPresent(
            IF column_names[i] \in DOMAIN row
            THEN [columns EXCEPT ![column_names[i]] = Append(@, row[column_names[i]])]
            ELSE columns,
            row, i + 1)

\* Variant: the value is put in front of the column's buffer.
RECURSIVE PushColumnsFront(_, _, _)
PushColumnsFront(columns, row, i) ==
    IF i > NCols THEN columns
    ELSE PushColumnsFront(
            [columns EXCEPT ![column_names[i]] =
                <<MapGet(row, column_names[i], <<>>)>> \o @],
            row, i + 1)

RECURSIVE PushColumns(_, _, _)
PushColumns(columns, row, i) ==
    IF i > NCols THEN columns
    ELSE PushColumns(
            [columns EXCEPT ![column_names[i]] =
                Append(@, MapGet(row, column_names[i], <<>>))],
            row, i + 1)

RECURSIVE DrainLoop(_, _, _)
DrainLoop(content, rows, i) ==
    IF i > Len(rows) THEN content
    ELSE DrainLoop([content EXCEPT !.columns = PushColumns(@, rows[i], 1),
                                   !.n = @ + 1],
                   rows, i + 1)

\* Variant: generate is called before the table object is reset, so that a
\* throw leaves the table object as it was.
FilterResultGenerateFirst(content, argv, gen, throws) ==
    LET reset == [content EXCEPT !.n = 0, !.columns = ClearLoop(@, 1)]
        b == BindLoop(content.constraints, AffinityLoop(EmptyMap, 1), argv, 1)
        bound == [reset EXCEPT !.constraints = b.constraints]
    IN  [content |-> IF throws THEN content ELSE DrainLoop(bound, gen, 1),
         request |-> b.request, generate_calls |-> 1]

\* Variant: generate is called once for the row count and once more for
\* the rows.
FilterResultGeneratesTwice(content, argv, gen, throws) ==
    LET reset == [content EXCEPT !.n = 0, !.columns = ClearLoop(@, 1)]
        b == BindLoop(content.constraints, AffinityLoop(EmptyMap, 1), argv, 1)
        bound == [reset EXCEPT !.constraints = b.constraints]
    IN  [content |-> IF throws THEN bound ELSE DrainLoop(bound, gen, 1),
         request |-> b.request, generate_calls |-> IF throws THEN 1 ELSE 2]

\* The table object after xFilter with literals argv when generate returns
\* rows gen (throws = FALSE) or throws, the request generate was given and
\* the number of times generate was called.
FilterResult(content, argv, gen, throws) ==
    LET reset == [content EXCEPT !.n = 0, !.columns = ClearLoop(@, 1)]
        b == BindLoop(content.constraints, AffinityLoop(EmptyMap, 1), argv, 1)
        bound == [reset EXCEPT !.constraints = b.constraints]
    IN  [content |-> IF throws THEN bound ELSE DrainLoop(bound, gen, 1),
         request |-> b.request, generate_calls |-> 1]

\* outcome: "return" (generate returns gen), "throw" (generate throws), or
\* "fault" (the out-of-range access to the ConstraintSet faults).
\* Variant: the row count and the buffer are one static object that every
\* table of the process fills.
xFilterStaticBuffer(c, argv, gen, outcome) ==
    LET v == cursors[c].vtab
        r == FilterResult(vtabs[v], argv, gen, outcome = "throw")
    IN  /\ status = "running"
        /\ Open(c)
        /\ outcome # "return" => gen = <<>>
        /\ outcome # "fault"
        /\ cursors' = [cursors EXCEPT ![c].row = 0]
        /\ vtabs' = [w \in VtabIds |->
                        IF w = v THEN r.content
                        ELSE IF vtabs[w].alloc
                        THEN [vtabs[w] EXCEPT !.n = r.content.n,
                                              !.columns = r.content.columns]
                        ELSE vtabs[w]]
        /\ generated' = [generated EXCEPT ![v] =
                [state |-> IF outcome = "throw" THEN "thrown" ELSE "returned",
                 rows |-> gen]]
        /\ last' = [Call("xFilter", v, c,
                         IF outcome = "throw" THEN THROWN ELSE OK,
                         [argv |-> argv, request |-> r.request,
                          prior |-> [n |-> vtabs[v].n, row |-> cursors[c].row,
                                     exprs |-> Bound(vtabs[v].constraints,
                                                     Len(argv))]])
                        EXCEPT !.generate_calls = r.generate_calls]
        /\ UNCHANGED <<status, plan>>

xFilter(c, argv, gen, outcome) ==
    LET v == cursors[c].vtab
        r == FilterResult(vtabs[v], argv, gen, outcome = "throw")
    IN  /\ status = "running"
        /\ Open(c)
        /\ outcome = "fault" => Len(argv) > Len(vtabs[v].constraints)
        /\ outcome # "return" => gen = <<>>
        /\ IF outcome = "fault"
           THEN /\ status' = "crashed"
                /\ last' = Call("xFilter", v, c, "crash", [argv |-> argv])
                /\ UNCHANGED <<vtabs, cursors, generated>>
           ELSE /\ cursors' = [cursors EXCEPT ![c].row = 0]
                /\ vtabs' = [vtabs EXCEPT ![v] = r.content]
                /\ generated' = [generated EXCEPT ![v] =
                        [state |-> IF outcome = "throw" THEN "thrown" ELSE "returned",
                         rows |-> gen]]
                /\ last' = [Call("xFilter", v, c,
                                 IF outcome = "throw" THEN THROWN ELSE OK,
                                 [argv |-> argv, request |-> r.request,
                                  prior |-> [n |-> vtabs[v].n,
                                             row |-> cursors[c].row,
                                             exprs |-> Bound(vtabs[v].constraints,
                                                             Len(argv))]])
                                EXCEPT !.generate_calls = r.generate_calls]
                /\ UNCHANGED status
        /\ UNCHANGED plan

----------------------------------------------------------------------------
(* The engine's calls other than xBestIndex and xFilter; cols are the       *)
(* column indexes it reads.                                                *)
Lifecycle(vs, cs, cols) ==
    \/ \E v \in vs, rc \in {OK, ERROR}, n0 \in UninitInts : xCreate(v, rc, n0)
    \/ \E v \in vs : xDestroy(v)
    \/ \E v \in vs, c \in cs : xOpen(v, c)
    \/ \E c \in cs : xClose(c)
    \/ \E c \in cs : xNext(c)
    \/ \E c \in cs : xRowid(c)
    \/ \E c \in cs : xEof(c)
    \/ \E c \in cs, col \in cols : xColumn(c, col)

Outcomes == {"return", "throw", "fault"}

Next ==
    \/ Lifecycle(OneTable, OneCursor, -1..NCols)
    \/ \E v \in OneTable, cands \in FewCandidateLists, fault \in BOOLEAN :
            xBestIndex(v, cands, fault)
    \/ \E c \in OneCursor, argv \in FewArgvLists, gen \in RowSets,
            outcome \in Outcomes :
            xFilter(c, argv, gen, outcome)

Spec == Init /\ [][Next]_vars

NextNegotiation ==
    \/ Lifecycle(OneTable, OneCursor, {0})
    \/ \E v \in OneTable, cands \in CandidateLists, fault \in BOOLEAN :
            xBestIndex(v, cands, fault)
    \/ \E c \in OneCursor, argv \in ArgvLists, gen \in FewRowSets,
            outcome \in Outcomes :
            xFilter(c, argv, gen, outcome)

SpecNegotiation == Init /\ [][NextNegotiation]_vars

(* Queries that open two cursors on one table, and queries on two tables  *)
(* attached under two names, cursor c on table c; both with small inputs. *)
OneCandidateList == { <<[iColumn |-> 0, op |-> "EQ", usable |-> TRUE]>> }

OneArgvList == { <<"a">> }

NextCursors ==
    \/ Lifecycle(OneTable, CursorIds, {0})
    \/ \E v \in OneTable, cands \in OneCandidateList, fault \in BOOLEAN :
            xBestIndex(v, cands, fault)
    \/ \E c \in CursorIds, argv \in OneArgvList, gen \in FewRowSets,
            outcome \in Outcomes :
            xFilter(c, argv, gen, outcome)

SpecCursors == Init /\ [][NextCursors]_vars

OwnCursor == \A c \in CursorIds : cursors'[c].open => cursors'[c].vtab = c

NextTables ==
    \/ Lifecycle(VtabIds, CursorIds, {0}) /\ OwnCursor
    \/ \E v \in VtabIds, cands \in OneCandidateList, fault \in BOOLEAN :
            xBestIndex(v, cands, fault)
    \/ \E c \in CursorIds, argv \in OneArgvList, gen \in FewRowSets,
            outcome \in Outcomes :
            xFilter(c, argv, gen, outcome)

SpecTables == Init /\ [][NextTables]_vars

(* Queries that read cells of every kind through every declared type.     *)
NextCoercion ==
    \/ Lifecycle(OneTable, OneCursor, 0..(NCols - 1))
    \/ \E v \in OneTable, cands \in OneCandidateList, fault \in BOOLEAN :
            xBestIndex(v, cands, fault)
    \/ \E c \in OneCursor, argv \in {<<>>}, gen \in CoercionRowSets,
            outcome \in Outcomes :
            xFilter(c, argv, gen, outcome)

SpecCoercion == Init /\ [][NextCoercion]_vars

----------------------------------------------------------------------------
(* Properties of buffering and iteration, checked under Spec.              *)

\* The buffer of a schema column: its values, none when the map has no entry.
Buffer(v, name) == MapGet(vtabs[v].columns, name, <<>>)

\* The cell of a generated row under a column: the empty string when absent.
Cell(row, name) == MapGet(row, name, <<>>)

SchemaColumns == 0..(NCols - 1)

\* C1: for the rows R that generate returned to the latest xFilter on a
\* table, a cursor on it is at eof exactly when its position is at least |R|,
\* and at every position i < |R| the read of every column succeeds with the
\* coercion of R[i]'s cell of that column to the column's type; xFilter leaves
\* its cursor at position 0 and xNext advances the position by exactly one, so
\* that the rows are visited in generation order and there are |R| of them.
C1_Positions ==
    \A c \in CursorIds :
        (Open(c) /\ generated[cursors[c].vtab].state = "returned") =>
            LET R == generated[cursors[c].vtab].rows
                row == cursors[c].row
            IN  /\ xEofValue(c) <=> row >= Len(R)
                /\ row < Len(R) =>
                    \A col \in SchemaColumns :
                        xColumnResult(c, col) =
                            [rc |-> OK,
                             out |-> Coerce(types[col + 1],
                                            Cell(R[row + 1], column_names[col + 1]))]

C1_Steps ==
    /\ (last'.op = "xFilter" /\ last'.rc = OK) => cursors'[last'.c].row = 0
    /\ last'.op = "xNext" => cursors'[last'.c].row = cursors[last'.c].row + 1

C1_IterationYieldsGeneratedRows == [](C1_Positions) /\ [][C1_Steps]_vars

\* A read of the INTEGER column at the second of two generated rows.
C1_Witness ==
    /\ last.op = "xColumn" /\ last.rc = OK
    /\ last.out.col = 1 /\ last.out.result.kind = "int"
    /\ cursors[last.c].row = 1
    /\ generated[last.v].state = "returned"
    /\ Len(generated[last.v].rows) = 2
    /\ generated[last.v].rows[1] # generated[last.v].rows[2]

\* C4: an xFilter that returns on a table that was filtered before leaves its
\* cursor at position 0, the row count at the number of rows of this
\* execution, and in every schema column's buffer exactly the cells of this
\* execution's rows, in order: nothing of the prior execution remains.
C4_RefilterReplacesBuffer ==
    (last.op = "xFilter" /\ last.rc = OK) =>
        LET R == generated[last.v].rows
        IN  /\ cursors[last.c].row = 0
            /\ vtabs[last.v].n = Len(R)
            /\ \A col \in SchemaColumns :
                 Buffer(last.v, column_names[col + 1]) =
                    [i \in 1..Len(R) |-> Cell(R[i], column_names[col + 1])]

\* A second execution with fewer rows than the first, whose cursor had been
\* moved to the end.
C4_Witness ==
    /\ last.op = "xFilter" /\ last.rc = OK
    /\ last.out.prior.n = 2
    /\ last.out.prior.row = 2
    /\ Len(generated[last.v].rows) < 2

\* C7: right after a successful xCreate the row count is 0 and the column
\* buffers and the ConstraintSet are empty, and until the first xFilter a
\* cursor at position 0 is at eof.
C7_CreatedEmpty ==
    /\ (last.op = "xCreate" /\ last.rc = OK) =>
            /\ vtabs[last.v].n = 0
            /\ \A col \in SchemaColumns : Buffer(last.v, column_names[col + 1]) = <<>>
            /\ vtabs[last.v].constraints = <<>>
    /\ \A c \in CursorIds :
            (Open(c) /\ generated[cursors[c].vtab].state = "none"
                /\ cursors[c].row = 0) => xEofValue(c)

\* C8: an xFilter returns SQLITE_OK only when generate returned; and while
\* the latest xFilter on a table is one in which generate threw, the row
\* count is 0, every column buffer is empty, every cursor on the table is at
\* eof and every column read fails.
C8_ThrowLeavesEmptyBuffer ==
    /\ (last.op = "xFilter" /\ last.rc = OK) => generated[last.v].state = "returned"
    /\ \A v \in VtabIds :
        (vtabs[v].alloc /\ generated[v].state = "thrown") =>
            /\ vtabs[v].n = 0
            /\ \A col \in SchemaColumns : Buffer(v, column_names[col + 1]) = <<>>
            /\ \A c \in CursorsOn(v) :
                /\ xEofValue(c)
                /\ \A col \in -1..NCols : xColumnResult(c, col).rc = ERROR

\* generate threw in the second execution, after a first one with two rows.
C8_Witness ==
    /\ last.op = "xFilter" /\ last.rc = THROWN
    /\ last.out.prior.n = 2
    /\ generated[last.v].state = "thrown"

\* C9: a column read returns SQLITE_ERROR and sets no result when the column
\* index is not one of the schema's columns (negative included) or the
\* position is not one of the values buffered for the column, and returns
\* SQLITE_OK otherwise.
C9_ColumnBounds ==
    last.op = "xColumn" =>
        LET col == last.out.col
            row == cursors[last.c].row
            outside ==
                \/ col \notin SchemaColumns
                \/ row < 0
                \/ row >= Len(Buffer(last.v, column_names[col + 1]))
        IN  IF outside
            THEN last.rc = ERROR /\ last.out.result = NoResult
            ELSE last.rc = OK

\* A read of a schema column at a position just past its buffered values.
C9_Witness ==
    /\ last.op = "xColumn" /\ last.rc = ERROR
    /\ last.out.col \in SchemaColumns
    /\ Len(Buffer(last.v, column_names[last.out.col + 1])) = 1
    /\ cursors[last.c].row = 1

\* C10: a column read that returns SQLITE_ERROR changes neither the row
\* count, nor any cursor, nor the values buffered for any column, nor the
\* ConstraintSet.
C10_Frame ==
    (last'.op = "xColumn" /\ last'.rc = ERROR) =>
        /\ cursors' = cursors
        /\ \A v \in VtabIds :
            /\ vtabs'[v].alloc = vtabs[v].alloc
            /\ vtabs[v].alloc =>
                /\ vtabs'[v].n = vtabs[v].n
                /\ vtabs'[v].constraints = vtabs[v].constraints
                /\ \A col \in SchemaColumns :
                     MapGet(vtabs'[v].columns, column_names[col + 1], <<>>) =
                        Buffer(v, column_names[col + 1])

C10_FailedReadChangesNothing == [][C10_Frame]_vars

\* A failed read past the end of a table with a buffered row and a
\* ConstraintSet entry.
C10_Witness ==
    /\ last.op = "xColumn" /\ last.rc = ERROR
    /\ vtabs[last.v].n = 1
    /\ vtabs[last.v].constraints # <<>>
    /\ cursors[last.c].row = 2

------------------------------------------------------------\* C19: after every xFilter that returns, the buffer of every schema column
\* has exactly as many values as the row count, also when a generated row
\* has no value for a column, which then gets the empty string, or has
\* keys that are no schema columns, which are not buffered.
C19_BuffersAligned ==
    \A v \in VtabIds :
        (vtabs[v].alloc /\ generated[v].state = "returned") =>
            LET R == generated[v].rows
            IN  /\ vtabs[v].n = Len(R)
                /\ DOMAIN vtabs[v].columns = {column_names[k] : k \in 1..NCols}
                /\ \A k \in 1..NCols :
                     /\ Len(vtabs[v].columns[column_names[k]]) = vtabs[v].n
                     /\ \A i \in 1..Len(R) :
                          column_names[k] \notin DOMAIN R[i]
                              => vtabs[v].columns[column_names[k]][i] = <<>>

\* Two rows have just been buffered, the second without a value for "pid"
\* and with a key that is no column.
C19_Witness ==
    /\ last.op = "xFilter" /\ last.rc = OK
    /\ Len(generated[last.v].rows) = 2
    /\ "pid" \in DOMAIN generated[last.v].rows[1]
    /\ "pid" \notin DOMAIN generated[last.v].rows[2]
    /\ "extra" \in DOMAIN generated[last.v].rows[2]

\* The number of rows the adapter holds for table v: the rows of the latest
\* execution; before the first execution, whatever the row count field holds.
RowCount(v) ==
    IF generated[v].state = "none" THEN vtabs[v].n ELSE Len(generated[v].rows)

\* C15: xEof returns true exactly when the cursor position is greater than
\* or equal to the row count: before any filter, after a filter that
\* produced no rows, in the middle of an iteration and after the last row.
C15_EofIffPastEnd ==
    last.op = "xEof" =>
        /\ last.rc = OK
        /\ last.out <=> cursors[last.c].row >= RowCount(last.v)

\* End of data reported after the last of two rows.
C15_Witness ==
    /\ last.op = "xEof" /\ last.out
    /\ generated[last.v].state = "returned"
    /\ Len(generated[last.v].rows) = 2
    /\ cursors[last.c].row = 2

----------------
(* Properties of the negotiation, checked under SpecNegotiation.           *)

\* The number of usable candidates among the first i of cands.
RECURSIVE UsableUpTo(_, _)
UsableUpTo(cands, i) ==
    IF i = 0 THEN 0
    ELSE UsableUpTo(cands, i - 1) + (IF cands[i].usable THEN 1 ELSE 0)

\* The constraints a request lists under a column, for the accepted terms
\* terms and the literals argv given in their order: (operator, literal) of
\* the terms on that column, in order.
RECURSIVE ProposedFor(_, _, _, _)
ProposedFor(name, terms, argv, p) ==
    IF p > Len(terms) THEN <<>>
    ELSE (IF column_names[terms[p].iColumn + 1] = name
          THEN <<[op |-> terms[p].op, expr |-> argv[p]]>>
          ELSE <<>>) \o ProposedFor(name, terms, argv, p + 1)

ProposedRequest(terms, argv) ==
    [name \in {column_names[i] : i \in 1..NCols} |->
        [affinity |-> types[CHOOSE i \in 1..NCols : column_names[i] = name],
         constraints |-> ProposedFor(name, terms, argv, 1)]]

\* C2: an xFilter that returns and is given as many literals as the latest
\* xBestIndex accepted terms (every term ever accepted being on a schema
\* column) hands generate a request
\* that lists, under every column, exactly the (operator, literal) pairs of
\* the accepted terms on that column, in the order accepted.
C2_BindingFollowsProposal ==
    (/\ last.op = "xFilter" /\ last.rc = OK
     /\ Len(last.out.argv) = Len(plan[last.v])
     /\ \A i \in 1..Len(vtabs[last.v].constraints) :
            vtabs[last.v].constraints[i].first # Garbage)
    => last.out.request = ProposedRequest(plan[last.v], last.out.argv)

\* C3: the argvIndex that xBestIndex returns for a usable candidate is the
\* 1-based index in the ConstraintSet of the entry appended for it, and an
\* xFilter given the literals of the latest negotiation writes literal p into
\* the entry of that negotiation's p-th accepted term.
C3_PositionIsConstraintIndex ==
    /\ (last.op = "xBestIndex" /\ last.rc = OK) =>
        LET cands == last.out.cands
            first == Len(vtabs[last.v].constraints) - UsableUpTo(cands, Len(cands))
        IN  \A i \in 1..Len(cands) :
                cands[i].usable => last.out.usage[i] = first + UsableUpTo(cands, i)
    /\ (last.op = "xFilter" /\ last.rc = OK
            /\ Len(last.out.argv) = Len(plan[last.v])) =>
        LET first == Len(vtabs[last.v].constraints) - Len(plan[last.v])
        IN  \A p \in 1..Len(last.out.argv) :
                vtabs[last.v].constraints[first + p].second.expr = last.out.argv[p]

\* C5: xBestIndex gives a candidate that is not usable no argvIndex, and
\* appends to the ConstraintSet one entry per usable candidate and nothing
\* else, in the order offered; every constraint of a request is an entry of
\* the ConstraintSet that this xFilter bound.
C5_Step ==
    (last'.op = "xBestIndex" /\ last'.rc = OK) =>
        LET cands == last'.out.cands
            usage == last'.out.usage
            before == vtabs[last'.v].constraints
            after == vtabs'[last'.v].constraints
        IN  /\ \A i \in 1..Len(cands) : ~cands[i].usable => usage[i] = 0
            /\ Len(after) = Len(before) + UsableUpTo(cands, Len(cands))
            /\ SubSeq(after, 1, Len(before)) = before
            /\ \A i \in 1..Len(cands) :
                cands[i].usable =>
                    after[Len(before) + UsableUpTo(cands, i)] =
                        [first |-> ColumnNameAt(cands[i].iColumn),
                         second |-> [op |-> cands[i].op, expr |-> ""]]

C5_Requests ==
    (/\ last.op = "xFilter" /\ last.rc \in {OK, THROWN}
     /\ Len(last.out.argv) <= Len(vtabs[last.v].constraints)) =>
        \A key \in DOMAIN last.out.request :
            \A k \in 1..Len(last.out.request[key].constraints) :
                \E i \in 1..Len(last.out.argv) :
                    vtabs[last.v].constraints[i] =
                        [first |-> key,
                         second |-> last.out.request[key].constraints[k]]

C5_NotUsableIsSkipped == [](C5_Requests) /\ [][C5_Step]_vars

\* A candidate that is not usable offered before a usable one.
C5_Witness ==
    /\ last.op = "xBestIndex" /\ last.rc = OK
    /\ Len(last.out.cands) = 2
    /\ ~last.out.cands[1].usable /\ last.out.cands[2].usable
    /\ last.out.usage = <<0, 1>>
    /\ Len(vtabs[last.v].constraints) = 2

\* C6: an xFilter given more literals than the ConstraintSet has entries
\* returns SQLITE_ERROR, without a faulting access.
C6_OutOfRangeSignalsError ==
    (last.op = "xFilter" /\ Len(last.out.argv) > Len(vtabs[last.v].constraints))
        => (last.rc = ERROR /\ status = "running")

----------------------------------------------------------------------------
(* Properties of the table lifecycle, checked under Spec.                  *)

\* The adapter instances that are allocated, handed to the engine or not.
Allocated == {v \in VtabIds : vtabs[v].alloc}

\* C11: a create whose schema declaration is rejected reports the failure
\* and leaves no adapter instance and no content object allocated or handed
\* to the engine: the instance it was asked for does not exist afterwards.
C11_FailedCreateReleases ==
    (last.op = "xCreate" /\ last.rc # OK) => last.v \notin Allocated

----------------------------------------------------------------------------
(* Properties of cursors and tables side by side, checked under            *)
(* SpecCursors and SpecTables.                                             *)

\* What cursor c sees: the row count its end-of-data test uses and the
\* result of reading each schema column at its position.
View(c) ==
    [n |-> vtabs[cursors[c].vtab].n,
     reads |-> [col \in SchemaColumns |-> xColumnResult(c, col)]]

\* C12: the Row Buffer and the ConstraintSet are not shared between plan
\* nodes executing at once: with two cursors open on one table, a filter
\* through one cursor changes neither the row count nor any value the other
\* cursor reads from the execution it is iterating.
C12_Step ==
    (last'.op = "xFilter" /\ last'.rc = OK) =>
        \A c \in CursorIds \ {last'.c} :
            (/\ Open(c)
             /\ cursors[c].vtab = last'.v
             /\ generated[last'.v].state = "returned")
            => View(c)' = View(c)

C12_CursorsDoNotShare == [][C12_Step]_vars

----------------------------------------------------------------------------
(* Properties of the coercion, checked under SpecCoercion.                 *)

\* The decimal strings among CoercionValues and the integers they denote,
\* as sign and decimal magnitude, with the width each fits.
Denotes ==
    { [text |-> <<"4", "2">>, neg |-> FALSE, mag |-> <<4, 2>>, bits |-> 32],
      [text |-> <<"-", "7">>, neg |-> TRUE, mag |-> <<7>>, bits |-> 32],
      [text |-> <<"2", "1", "4", "7", "4", "8", "3", "6", "4", "7">>,
       neg |-> FALSE, mag |-> <<2, 1, 4, 7, 4, 8, 3, 6, 4, 7>>, bits |-> 32],
      [text |-> <<"-", "2", "1", "4", "7", "4", "8", "3", "6", "4", "8">>,
       neg |-> TRUE, mag |-> <<2, 1, 4, 7, 4, 8, 3, 6, 4, 8>>, bits |-> 32],
      [text |-> <<"2", "1", "4", "7", "4", "8", "3", "6", "4", "8">>,
       neg |-> FALSE, mag |-> <<2, 1, 4, 7, 4, 8, 3, 6, 4, 8>>, bits |-> 64],
      [text |-> <<"-", "2", "1", "4", "7", "4", "8", "3", "6", "4", "9">>,
       neg |-> TRUE, mag |-> <<2, 1, 4, 7, 4, 8, 3, 6, 4, 9>>, bits |-> 64],
      [text |-> <<"9", "9", "9", "9", "9", "9", "9", "9", "9", "9">>,
       neg |-> FALSE, mag |-> <<9, 9, 9, 9, 9, 9, 9, 9, 9, 9>>, bits |-> 64],
      [text |-> <<"9", "2", "2", "3", "3", "7", "2", "0", "3", "6", "8", "5",
                  "4", "7", "7", "5", "8", "0", "7">>,
       neg |-> FALSE,
       mag |-> <<9, 2, 2, 3, 3, 7, 2, 0, 3, 6, 8, 5, 4, 7, 7, 5, 8, 0, 7>>,
       bits |-> 64] }

\* The integer a cell yields when read with the given width: the one it
\* denotes when it fits, else the sentinel -1.
Parsed(value, width) ==
    IF \E d \in Denotes : d.text = value /\ d.bits <= width
    THEN LET d == CHOOSE d \in Denotes : d.text = value
         IN  [neg |-> d.neg, mag |-> d.mag]
    ELSE [neg |-> TRUE, mag |-> <<1>>]

\* The result the claim gives for a cell read under a declared type.
Coerced(type, value) ==
    CASE type = "TEXT" -> [kind |-> "text", val |-> value]
      [] type = "INTEGER" -> [kind |-> "int", val |-> Parsed(value, 32)]
      [] type = "BIGINT" -> [kind |-> "int64", val |-> Parsed(value, 64)]

\* The latest call is a read of a schema column at a position within the
\* rows of the latest execution.
ReadInRange ==
    /\ last.op = "xColumn"
    /\ last.out.col \in 0..(NCols - 1)
    /\ generated[last.v].state = "returned"
    /\ cursors[last.c].row < Len(generated[last.v].rows)

\* The generated cell an in-range read is about.
ReadCell ==
    generated[last.v].rows[cursors[last.c].row + 1][column_names[last.out.col + 1]]

\* C13: an in-range read returns success and, for a Text column, the
\* buffered string verbatim (the empty string included); for an Integer
\* column the 32-bit signed integer the string strictly denotes, else -1;
\* for a BigInt column the 64-bit one, else -1.
C13_Coercion ==
    ReadInRange =>
        /\ last.rc = OK
        /\ last.out.result = Coerced(types[last.out.col + 1], ReadCell)

\* The same for the cells without a NUL character.
C13_CoercionOfCStrings ==
    (ReadInRange /\ \A i \in 1..Len(ReadCell) : ReadCell[i] # "\\0")
        => C13_Coercion


\* The cursors open on table w.
CursorsOf(w) == [c \in CursorsOn(w) |-> cursors[c]]

\* C14: with two tables attached under two names, every operation on one
\* of them leaves the other's row count, buffer and ConstraintSet, and the
\* cursors open on it, as they were; after one is destroyed the process
\* still runs and the other is as queryable as before.
C14_Frame ==
    /\ \A w \in VtabIds \ {last'.v} :
            /\ vtabs'[w] = vtabs[w]
            /\ CursorsOf(w)' = CursorsOf(w)
    /\ last'.op = "xDestroy" => status' = "running"

C14_TablesAreIndependent == [][C14_Frame]_vars

\* Table 1 has just been destroyed while table 2 holds a ConstraintSet and
\* one buffered row, which its cursor reads.
C14_Witness ==
    /\ last.op = "xDestroy" /\ last.v = 1
    /\ ~vtabs[1].alloc
    /\ Live(2) /\ vtabs[2].n = 1 /\ Len(vtabs[2].constraints) > 0
    /\ generated[2].state = "returned"
    /\ Open(2) /\ cursors[2].vtab = 2
    /\ xColumnResult(2, 0).rc = OK

----------------------------------------------------------------------------
(* Properties of the request and of re-binding, checked under              *)
(* SpecNegotiation.                                                        *)

\* The latest call is an xFilter that got as far as generate and was given
\* no more literals than the ConstraintSet has entries.
FilterWithinSet ==
    /\ last.op = "xFilter"
    /\ last.rc \in {OK, THROWN}
    /\ Len(last.out.argv) <= Len(vtabs[last.v].constraints)

\* Of the first argc entries of the ConstraintSet cs, those on column name,
\* in order, each with its operator and the literal argv gives its position.
RECURSIVE BoundOn(_, _, _, _)
BoundOn(name, cs, argv, i) ==
    IF i > Len(argv) THEN <<>>
    ELSE (IF cs[i].first = name
          THEN <<[op |-> cs[i].second.op, expr |-> argv[i]]>>
          ELSE <<>>) \o BoundOn(name, cs, argv, i + 1)

\* C16: the request handed to generate has an entry for every schema
\* column, constrained or not, carrying the column's declared type as its
\* affinity, and the constraints under a column are exactly the bound
\* ConstraintSet entries on that column, each with the operator recorded by
\* xBestIndex and the literal bound in this call.
C16_RequestGroupsBoundConstraints ==
    FilterWithinSet =>
        \A k \in 1..NCols :
            /\ column_names[k] \in DOMAIN last.out.request
            /\ last.out.request[column_names[k]] =
                  [affinity |-> types[k],
                   constraints |-> BoundOn(column_names[k],
                                           vtabs[last.v].constraints,
                                           last.out.argv, 1)]

\* Two literals bound to entries on two columns; the third column is in the
\* request without constraints.
C16_Witness ==
    /\ FilterWithinSet
    /\ Len(last.out.argv) = 2
    /\ vtabs[last.v].constraints[1].first # vtabs[last.v].constraints[2].first
    /\ \A i \in 1..2 : vtabs[last.v].constraints[i].first # Garbage
    /\ last.out.request["size"].constraints = <<>>


\* The number of constraints a request holds, over all its keys.
RECURSIVE RequestSize(_)
RequestSize(request) ==
    IF DOMAIN request = {} THEN 0
    ELSE LET k == CHOOSE k \in DOMAIN request : TRUE
         IN  Len(request[k].constraints)
             + RequestSize([x \in DOMAIN request \ {k} |-> request[x]])

\* The request of the latest xFilter holds one constraint per literal of
\* that call, each with the literal of a position whose entry is on its
\* column, and the bound entries hold that call's literals.
C17_Literals ==
    FilterWithinSet =>
        LET argv == last.out.argv
            cs == vtabs[last.v].constraints
            request == last.out.request
        IN  /\ RequestSize(request) = Len(argv)
            /\ \A k \in DOMAIN request :
                 \A j \in 1..Len(request[k].constraints) :
                    \E i \in 1..Len(argv) :
                        /\ cs[i].first = k
                        /\ request[k].constraints[j].expr = argv[i]
            /\ \A i \in 1..Len(argv) : cs[i].second.expr = argv[i]

\* An xFilter within the ConstraintSet keeps its length and the column and
\* operator at every position.
C17_Step ==
    (/\ last'.op = "xFilter"
     /\ last'.rc \in {OK, THROWN}
     /\ Len(last'.out.argv) <= Len(vtabs[last'.v].constraints))
    => LET cs == vtabs[last'.v].constraints
           after == vtabs'[last'.v].constraints
       IN  /\ Len(after) = Len(cs)
           /\ \A i \in 1..Len(cs) :
                /\ after[i].first = cs[i].first
                /\ after[i].second.op = cs[i].second.op

\* C17: the ConstraintSet is re-bound by every execution: after one
\* xBestIndex, two successive xFilter calls with different literal lists of
\* the same length each hand generate a request holding only the literals
\* of that call, and the ConstraintSet keeps its length and the same column
\* and operator at every position.
C17_Rebinding == [](C17_Literals) /\ [][C17_Step]_vars

\* The second of two executions of one negotiation of two terms: both
\* entries held other literals, bound by an earlier xFilter.
C17_Witness ==
    /\ FilterWithinSet /\ last.rc = OK
    /\ Len(plan[last.v]) = 2
    /\ Len(vtabs[last.v].constraints) = 2
    /\ Len(last.out.argv) = 2
    /\ \A i \in 1..2 :
         last.out.prior.exprs[i] \notin {"", last.out.argv[i]}

----------------------------------------------------------------------------
(* Properties of the calls to the plugin, checked under Spec.              *)

\* C18: generate is called exactly once by every xFilter call that reaches
\* it (once also when it throws or returns no rows) and by no other
\* callback, so that a table's generate calls are as many as its xFilter
\* calls.
C18_GenerateOncePerFilter ==
    last.generate_calls =
        IF last.op = "xFilter" /\ last.rc \in {OK, THROWN} THEN 1 ELSE 0

\* A second execution on a table whose first one returned two rows: two
\* xFilter calls, each with its one generate call.
C18_Witness ==
    /\ last.op = "xFilter" /\ last.rc = OK
    /\ last.generate_calls = 1
    /\ last.out.prior.n = 2
    /\ generated[last.v].rows = <<>>


\* C20: xBestIndex never reads the schema outside its bounds: it returns,
\* and the column name recorded for every usable candidate, the rowid
\* pseudo-column (index -1) and an index past the last column included, is
\* the name of a schema column.
C20_RecordedNamesAreColumns ==
    last.op = "xBestIndex" =>
        /\ last.rc = OK
        /\ \A i \in 1..Len(vtabs[last.v].constraints) :
             vtabs[last.v].constraints[i].first
                \in {column_names[k] : k \in 1..NCols}

====
